---- MODULE Spec2Model ----
(***************************************************************************)
(* A model of AD2_ELEX_with_demo.py: the WaveForms device facade           *)
(* (oscilloscope, wavegen, supplies) and the two-phase voltage sweep of    *)
(* main().                                                                 *)
(*                                                                         *)
(* Voltages are integers in units of 0.01 V (5 V = 500, the shipped step   *)
(* 0.05 V = 5).  The device is modelled by what the program writes to it   *)
(* and by the values it hands back.  Names the file uses without binding   *)
(* them (time, plt, np, the global object data) are taken to be bound by   *)
(* the environment the script is run in.                                   *)
(***************************************************************************)
EXTENDS Integers, Sequences, FiniteSets

VARIABLES
    mode,                \* which entry point runs: "main", "supplies", "generate", "record"
    pc,                  \* position in that entry point
    \* ---- locals of main() ----
    power_up, amplitude, amplitude_slope, rmap_steps, cycles,
    j, i, start_time,
    ramp_measurements, opamp_measurements, Times, data,
    \* ---- the clock behind time.time() ----
    clock,
    \* ---- what the program has told the device ----
    handleOpen,          \* FDwfDeviceOpen done and FDwfDeviceClose not yet
    scopeEnabled,        \* driver indices passed to FDwfAnalogInChannelEnableSet(.., True)
    sampledCh,           \* driver indices passed to FDwfAnalogInStatusSample
    genOffset,           \* per wavegen channel index: last carrier offset written
    genFunc,             \* per wavegen channel index: last function kind written
    genCalls,            \* number of generate_function calls so far
    uploads,             \* FDwfAnalogOutNodeDataSet calls: <<[buffer, length]>>
    posRail, negRail,    \* last voltages written to the V+ and V- rails
    railsOn,             \* <<positive_state, negative_state, master_state>> last written
    teardown,            \* the close_* calls made, in order
    \* ---- record_oscilloscope ----
    buffer_size, sampling_frequency,   \* data.buffer_size, data.sampling_frequency
    acquisitions,        \* FDwfAnalogInConfigure(.., start = True) calls
    lastStatus,          \* status byte of the last FDwfAnalogInStatus poll
    bufferReads,         \* FDwfAnalogInStatusData calls
    retBuffer, retTime,  \* the lists record_oscilloscope returns
    \* ---- arguments of the call under way (supplies / generate / record modes) ----
    args,
    \* ---- bookkeeping of the sweep ----
    start_voltage,       \* power_up as main() first set it
    settles,             \* settle delays (time.sleep(time_per_measurement)) taken
    recordedRising, recordedFalling   \* elapsed times appended in each phase

mainVars == <<power_up, amplitude, amplitude_slope, rmap_steps, cycles, j, i, start_time,
              ramp_measurements, opamp_measurements, Times, data, start_voltage,
              settles, recordedRising, recordedFalling>>
scopeVars == <<scopeEnabled, sampledCh>>
genVars == <<genOffset, genFunc, genCalls, uploads>>
supplyVars == <<posRail, negRail, railsOn>>
recordVars == <<buffer_size, sampling_frequency, acquisitions, lastStatus, bufferReads,
                retBuffer, retTime>>
vars == <<mode, pc, mainVars, clock, handleOpen, scopeVars, genVars, supplyVars,
          teardown, recordVars, args>>

----------------------------------------------------------------------------
(* Bounds of the model *)

MaxSteps == 2
MaxCycles == 2
MaxClock == 1
MaxData == 2
MaxBuffer == 2

(* The constants main() ships with *)
ShippedPowerUp == -500
ShippedAmplitude == 500
ShippedSlope == 5
ShippedCycles == 1

Starts == {-500, 0}
Slopes == {100, 250}

Abs(x) == IF x < 0 THEN -x ELSE x
Max2(a, b) == IF a > b THEN a ELSE b
Min2(a, b) == IF a < b THEN a ELSE b

----------------------------------------------------------------------------
(* The function kinds of class function *)

FunctionKinds == {"custom", "sine", "square", "triangle", "noise", "dc", "pulse",
                  "trapezium", "sine_power", "ramp_up", "ramp_down"}

(* rmap_steps = int(amplitude/amplitude_slope) *)
RmapStepsPlusOne(a, s) == (a \div s) + 1
RmapSteps(a, s) == a \div s

(* range(0, rmap_steps*2, 1) of the rising loop *)
RiseIterationsHalf == rmap_steps
RiseIterations == rmap_steps * 2

(* range(0, rmap_steps*2, 1) of the falling loop *)
FallIterationsHalf == rmap_steps
FallIterations == rmap_steps * 2

(* The voltage at a scope input.  In the demo circuit channel 1 probes the  *)
(* generator output and channel 2 the output of the stage it drives; both   *)
(* are functions of the driven offset.                                      *)
AnalogIn(index) == IF index = 0 THEN genOffset[0] ELSE -genOffset[0]

----------------------------------------------------------------------------
(* The device facade.  Each operator is the effect of one call of the      *)
(* function of the same name on the variables it owns.                     *)

(* open_oscilloscope: the one FDwfAnalogInChannelEnableSet call names      *)
(* driver index 0.                                                         *)
open_oscilloscope ==
    /\ scopeEnabled' = scopeEnabled \cup {0}
    /\ sampledCh' = sampledCh

(* measure_oscilloscope(channel): reads the sample of driver index         *)
(* channel - 1; the value returned is AnalogIn(channel - 1).               *)
measure_oscilloscope(channel) ==
    /\ sampledCh' = sampledCh \cup {channel - 1}
    /\ scopeEnabled' = scopeEnabled

(* buffer = (ctypes.c_double * data_length)(): a zeroed array *)
ZeroBuffer(n) == [k \in 1..n |-> 0]

(* for index in range(0, len(buffer)): buffer[index] = c_double(data[index]) *)
RECURSIVE FillFrom(_, _, _, _)
FillFrom(buffer, values, index, last) ==
    IF index > last THEN buffer
    ELSE FillFrom([buffer EXCEPT ![index] = values[index]], values, index + 1, last)

FillBufferShort(values) ==
    FillFrom(ZeroBuffer(Len(values)), values, 1, Len(values) - 1)
FillBuffer(values) ==
    FillFrom(ZeroBuffer(Len(values)), values, 1, Len(values))

(* generate_function(channel, function, offset, data) *)
generate_function(channel, function, offset, values) ==
    /\ genFunc' = [genFunc EXCEPT ![channel - 1] = function]
    /\ uploads' = IF function = "custom"
                  THEN Append(uploads, [channel |-> channel - 1,
                                        buffer |-> FillBuffer(values),
                                        length |-> Len(values)])
                  ELSE uploads
    /\ genOffset' = [genOffset EXCEPT ![channel - 1] = offset]
    /\ genCalls' = genCalls + 1

(* close_function(channel): FDwfAnalogOutReset of driver index channel - 1 *)
close_function(channel) ==
    /\ genFunc' = [genFunc EXCEPT ![channel - 1] = "reset"]
    /\ genOffset' = [genOffset EXCEPT ![channel - 1] = 0]
    /\ UNCHANGED <<genCalls, uploads>>

(* positive_voltage = max(0, min(5, positive_voltage)) *)
ClampPositiveNoFloor(v) == Min2(500, v)
ClampPositive(v) == Max2(0, Min2(500, v))

(* negative_voltage = max(-5, min(0, negative_voltage)) *)
ClampNegative(v) == Max2(-500, Min2(0, v))

(* _switch_variable_ (the second, effective definition) *)
switch_variable(master_state, positive_state, negative_state, positive_voltage, negative_voltage) ==
    /\ posRail' = ClampPositive(positive_voltage)
    /\ negRail' = ClampNegative(negative_voltage)
    /\ railsOn' = <<positive_state, negative_state, master_state>>

----------------------------------------------------------------------------
(* main() *)

Terminal == {"done", "crashed", "returned"}

(* device_data = device.open() *)
Open ==
    /\ mode = "main" /\ pc = "open"
    /\ handleOpen' = TRUE
    /\ pc' = "open_scope"
    /\ UNCHANGED <<mode, mainVars, clock, scopeVars, genVars, supplyVars, teardown,
                   recordVars, args>>

(* open_oscilloscope(device_data) *)
OpenScope ==
    /\ mode = "main" /\ pc = "open_scope"
    /\ open_oscilloscope
    /\ pc' = "supplies"
    /\ UNCHANGED <<mode, mainVars, clock, handleOpen, genVars, supplyVars, teardown,
                   recordVars, args>>

(* _switch_variable_(master, positive, negative on; +5 V, -5 V) *)
Supplies ==
    /\ mode = "main" /\ pc = "supplies"
    /\ switch_variable(TRUE, TRUE, TRUE, 500, -500)
    /\ pc' = "setup_gen"
    /\ UNCHANGED <<mode, mainVars, clock, handleOpen, scopeVars, genVars, teardown,
                   recordVars, args>>

(* generate_function(channel = 1, function.dc, offset = power_up) *)
SetupGenerator ==
    /\ mode = "main" /\ pc = "setup_gen"
    /\ generate_function(1, "dc", power_up, <<>>)
    /\ pc' = "start_timer"
    /\ UNCHANGED <<mode, mainVars, clock, handleOpen, scopeVars, supplyVars, teardown,
                   recordVars, args>>

(* start_time = time.time(); the clock may have advanced since it was last read *)
StartTimer ==
    /\ mode = "main" /\ pc = "start_timer"
    /\ \E d \in 0..1 :
          /\ clock + d <= MaxClock
          /\ clock' = clock + d
          /\ start_time' = clock + d
    /\ j' = 0
    /\ pc' = "cycle"
    /\ UNCHANGED <<mode, power_up, amplitude, amplitude_slope, rmap_steps, cycles, i,
                   ramp_measurements, opamp_measurements, Times, data, start_voltage,
                   settles, recordedRising, recordedFalling,
                   handleOpen, scopeVars, genVars, supplyVars, teardown, recordVars, args>>

(* for j in range(0, cycles, 1): enter the next cycle *)
CycleEnterRestartsTimer ==
    /\ mode = "main" /\ pc = "cycle" /\ j < cycles
    /\ i' = 0
    /\ start_time' = clock
    /\ pc' = "rise"
    /\ UNCHANGED <<mode, power_up, amplitude, amplitude_slope, rmap_steps, cycles, j,
                   ramp_measurements, opamp_measurements, Times, data,
                   start_voltage, settles, recordedRising, recordedFalling,
                   clock, handleOpen, scopeVars, genVars, supplyVars, teardown,
                   recordVars, args>>
CycleEnter ==
    /\ mode = "main" /\ pc = "cycle" /\ j < cycles
    /\ i' = 0
    /\ pc' = "rise"
    /\ UNCHANGED <<mode, power_up, amplitude, amplitude_slope, rmap_steps, cycles, j,
                   start_time, ramp_measurements, opamp_measurements, Times, data,
                   start_voltage, settles, recordedRising, recordedFalling,
                   clock, handleOpen, scopeVars, genVars, supplyVars, teardown,
                   recordVars, args>>

(* the cycle loop is exhausted *)
CyclesDone ==
    /\ mode = "main" /\ pc = "cycle" /\ j >= cycles
    /\ pc' = "present"
    /\ UNCHANGED <<mode, mainVars, clock, handleOpen, scopeVars, genVars, supplyVars,
                   teardown, recordVars, args>>

(* rising loop, lines 305-329: measurement = measure_oscilloscope(channel = 1);  *)
(* ramp_measurements.append(measurement)                                    *)
RiseMeasure1 ==
    /\ mode = "main" /\ pc = "rise" /\ i < RiseIterations
    /\ measure_oscilloscope(1)
    /\ ramp_measurements' = Append(ramp_measurements, AnalogIn(0))
    /\ pc' = "rise_m2"
    /\ UNCHANGED <<mode, power_up, amplitude, amplitude_slope, rmap_steps, cycles, j, i,
                   start_time, opamp_measurements, Times, data, start_voltage, settles,
                   recordedRising, recordedFalling,
                   clock, handleOpen, genVars, supplyVars, teardown, recordVars, args>>

(* measurement = measure_oscilloscope(channel = 2); opamp_measurements.append(measurement) *)
RiseMeasure2 ==
    /\ mode = "main" /\ pc = "rise_m2"
    /\ measure_oscilloscope(2)
    /\ opamp_measurements' = Append(opamp_measurements, AnalogIn(1))
    /\ pc' = "rise_step"
    /\ UNCHANGED <<mode, power_up, amplitude, amplitude_slope, rmap_steps, cycles, j, i,
                   start_time, ramp_measurements, Times, data, start_voltage, settles,
                   recordedRising, recordedFalling,
                   clock, handleOpen, genVars, supplyVars, teardown, recordVars, args>>

(* power_up += amplitude_slope; generate_function(channel = 1, function.dc, offset = power_up) *)
RiseStepNoGenerator ==
    /\ mode = "main" /\ pc = "rise_step"
    /\ power_up' = power_up + amplitude_slope
    /\ pc' = "rise_time"
    /\ UNCHANGED <<mode, amplitude, amplitude_slope, rmap_steps, cycles, j, i,
                   start_time, ramp_measurements, opamp_measurements, Times, data,
                   start_voltage, settles, recordedRising, recordedFalling,
                   clock, handleOpen, scopeVars, genVars, supplyVars, teardown,
                   recordVars, args>>
RiseStep ==
    /\ mode = "main" /\ pc = "rise_step"
    /\ power_up' = power_up + amplitude_slope
    /\ generate_function(1, "dc", power_up', <<>>)
    /\ pc' = "rise_time"
    /\ UNCHANGED <<mode, amplitude, amplitude_slope, rmap_steps, cycles, j, i,
                   start_time, ramp_measurements, opamp_measurements, Times, data,
                   start_voltage, settles, recordedRising, recordedFalling,
                   clock, handleOpen, scopeVars, supplyVars, teardown, recordVars, args>>

(* Times.append(time.time() - start_time) *)
RiseTime ==
    /\ mode = "main" /\ pc = "rise_time"
    /\ \E d \in 0..1 :
          /\ clock + d <= MaxClock
          /\ clock' = clock + d
          /\ Times' = Append(Times, (clock + d) - start_time)
    /\ recordedRising' = recordedRising + 1
    /\ pc' = "rise_sleep"
    /\ UNCHANGED <<mode, power_up, amplitude, amplitude_slope, rmap_steps, cycles, j, i,
                   start_time, ramp_measurements, opamp_measurements, data,
                   start_voltage, settles, recordedFalling,
                   handleOpen, scopeVars, genVars, supplyVars, teardown, recordVars, args>>

(* time.sleep(time_per_measurement); the loop goes on to its next index *)
RiseSleep ==
    /\ mode = "main" /\ pc = "rise_sleep"
    /\ settles' = settles + 1
    /\ i' = i + 1
    /\ pc' = "rise"
    /\ UNCHANGED <<mode, power_up, amplitude, amplitude_slope, rmap_steps, cycles, j,
                   start_time, ramp_measurements, opamp_measurements, Times, data,
                   start_voltage, recordedRising, recordedFalling,
                   clock, handleOpen, scopeVars, genVars, supplyVars, teardown,
                   recordVars, args>>

(* the rising loop is exhausted *)
RiseExit ==
    /\ mode = "main" /\ pc = "rise" /\ i >= RiseIterations
    /\ i' = 0
    /\ j' = j
    /\ pc' = "fall"
    /\ UNCHANGED <<mode, power_up, amplitude, amplitude_slope, rmap_steps, cycles,
                   start_time, ramp_measurements, opamp_measurements, Times, data,
                   start_voltage, settles, recordedRising, recordedFalling,
                   clock, handleOpen, scopeVars, genVars, supplyVars, teardown,
                   recordVars, args>>

(* falling loop, lines 331-357: measurement = measure_oscilloscope(channel = 1);  *)
(* ramp_measurements.append(measurement)                                    *)
FallMeasure1 ==
    /\ mode = "main" /\ pc = "fall" /\ i < FallIterations
    /\ measure_oscilloscope(1)
    /\ ramp_measurements' = Append(ramp_measurements, AnalogIn(0))
    /\ pc' = "fall_m2"
    /\ UNCHANGED <<mode, power_up, amplitude, amplitude_slope, rmap_steps, cycles, j, i,
                   start_time, opamp_measurements, Times, data, start_voltage, settles,
                   recordedRising, recordedFalling,
                   clock, handleOpen, genVars, supplyVars, teardown, recordVars, args>>

(* measurement = measure_oscilloscope(channel = 2); opamp_measurements.append(measurement) *)
FallMeasure2 ==
    /\ mode = "main" /\ pc = "fall_m2"
    /\ measure_oscilloscope(2)
    /\ opamp_measurements' = Append(opamp_measurements, AnalogIn(1))
    /\ pc' = "fall_step"
    /\ UNCHANGED <<mode, power_up, amplitude, amplitude_slope, rmap_steps, cycles, j, i,
                   start_time, ramp_measurements, Times, data, start_voltage, settles,
                   recordedRising, recordedFalling,
                   clock, handleOpen, genVars, supplyVars, teardown, recordVars, args>>

(* power_up -= amplitude_slope; generate_function(channel = 1, function.dc, offset = power_up) *)
FallStepNoGenerator ==
    /\ mode = "main" /\ pc = "fall_step"
    /\ power_up' = power_up - amplitude_slope
    /\ pc' = "fall_time"
    /\ UNCHANGED <<mode, amplitude, amplitude_slope, rmap_steps, cycles, j, i,
                   start_time, ramp_measurements, opamp_measurements, Times, data,
                   start_voltage, settles, recordedRising, recordedFalling,
                   clock, handleOpen, scopeVars, genVars, supplyVars, teardown,
                   recordVars, args>>
FallStep ==
    /\ mode = "main" /\ pc = "fall_step"
    /\ power_up' = power_up - amplitude_slope
    /\ generate_function(1, "dc", power_up', <<>>)
    /\ pc' = "fall_time"
    /\ UNCHANGED <<mode, amplitude, amplitude_slope, rmap_steps, cycles, j, i,
                   start_time, ramp_measurements, opamp_measurements, Times, data,
                   start_voltage, settles, recordedRising, recordedFalling,
                   clock, handleOpen, scopeVars, supplyVars, teardown, recordVars, args>>

(* Times.append(time.time() - start_time) *)
FallTime ==
    /\ mode = "main" /\ pc = "fall_time"
    /\ \E d \in 0..1 :
          /\ clock + d <= MaxClock
          /\ clock' = clock + d
          /\ Times' = Append(Times, (clock + d) - start_time)
    /\ recordedFalling' = recordedFalling + 1
    /\ pc' = "fall_sleep"
    /\ UNCHANGED <<mode, power_up, amplitude, amplitude_slope, rmap_steps, cycles, j, i,
                   start_time, ramp_measurements, opamp_measurements, data,
                   start_voltage, settles, recordedRising,
                   handleOpen, scopeVars, genVars, supplyVars, teardown, recordVars, args>>

(* time.sleep(time_per_measurement); the loop goes on to its next index *)
FallSleep ==
    /\ mode = "main" /\ pc = "fall_sleep"
    /\ settles' = settles + 1
    /\ i' = i + 1
    /\ pc' = "fall"
    /\ UNCHANGED <<mode, power_up, amplitude, amplitude_slope, rmap_steps, cycles, j,
                   start_time, ramp_measurements, opamp_measurements, Times, data,
                   start_voltage, recordedRising, recordedFalling,
                   clock, handleOpen, scopeVars, genVars, supplyVars, teardown,
                   recordVars, args>>

(* the falling loop is exhausted *)
FallExit ==
    /\ mode = "main" /\ pc = "fall" /\ i >= FallIterations
    /\ i' = 0
    /\ j' = j + 1
    /\ pc' = "cycle"
    /\ UNCHANGED <<mode, power_up, amplitude, amplitude_slope, rmap_steps, cycles,
                   start_time, ramp_measurements, opamp_measurements, Times, data,
                   start_voltage, settles, recordedRising, recordedFalling,
                   clock, handleOpen, scopeVars, genVars, supplyVars, teardown,
                   recordVars, args>>

(* Result presentation, lines 361-401.  min(Times) and max(Times) raise     *)
(* ValueError on an empty list; nothing catches it.                         *)
Present ==
    /\ mode = "main" /\ pc = "present"
    /\ pc' = IF Times = <<>> THEN "crashed" ELSE "close_function"
    /\ UNCHANGED <<mode, mainVars, clock, handleOpen, scopeVars, genVars, supplyVars,
                   teardown, recordVars, args>>

(* close_function(device_data, channel = 1) *)
CloseFunction ==
    /\ mode = "main" /\ pc = "close_function"
    /\ close_function(1)
    /\ teardown' = Append(teardown, "close_function")
    /\ pc' = "close_oscilloscope"
    /\ UNCHANGED <<mode, mainVars, clock, handleOpen, scopeVars, supplyVars,
                   recordVars, args>>

(* close_oscilloscope(device_data): FDwfAnalogInReset *)
CloseOscilloscope ==
    /\ mode = "main" /\ pc = "close_oscilloscope"
    /\ teardown' = Append(teardown, "close_oscilloscope")
    /\ pc' = "close"
    /\ UNCHANGED <<mode, mainVars, clock, handleOpen, scopeVars, genVars, supplyVars,
                   recordVars, args>>

(* close(device_data): FDwfDeviceClose *)
Close ==
    /\ mode = "main" /\ pc = "close"
    /\ handleOpen' = FALSE
    /\ teardown' = Append(teardown, "close")
    /\ pc' = "build_data"
    /\ UNCHANGED <<mode, mainVars, clock, scopeVars, genVars, supplyVars,
                   recordVars, args>>

(* data = [(Times[i], ramp_measurements[i], opamp_measurements[i])          *)
(*         for i in range(0, len(Times), 1)]; print(data)                   *)
BuildData ==
    /\ mode = "main" /\ pc = "build_data"
    /\ data' = [k \in 1..Len(Times) |->
                   <<Times[k], ramp_measurements[k], opamp_measurements[k]>>]
    /\ pc' = "done"
    /\ UNCHANGED <<mode, power_up, amplitude, amplitude_slope, rmap_steps, cycles, j, i,
                   start_time, ramp_measurements, opamp_measurements, Times,
                   start_voltage, settles, recordedRising, recordedFalling,
                   clock, handleOpen, scopeVars, genVars, supplyVars, teardown,
                   recordVars, args>>

(* Any statement of main() may raise (a driver call, the plotting library,  *)
(* an interrupt).  main() has no try/except/finally: the exception leaves   *)
(* main() at once and the program ends.                                     *)
RaiseError ==
    /\ mode = "main" /\ pc \notin Terminal
    /\ pc' = "crashed"
    /\ UNCHANGED <<mode, mainVars, clock, handleOpen, scopeVars, genVars, supplyVars,
                   teardown, recordVars, args>>

NextMain ==
    \/ Open \/ OpenScope \/ Supplies \/ SetupGenerator \/ StartTimer
    \/ CycleEnter \/ CyclesDone
    \/ RiseMeasure1 \/ RiseMeasure2 \/ RiseStep \/ RiseTime \/ RiseSleep \/ RiseExit
    \/ FallMeasure1 \/ FallMeasure2 \/ FallStep \/ FallTime \/ FallSleep \/ FallExit
    \/ Present \/ CloseFunction \/ CloseOscilloscope \/ Close \/ BuildData
    \/ RaiseError

----------------------------------------------------------------------------
(* The facade functions called on their own, on an open device *)

SupplyRequests == {-1000, -501, -500, -250, 0, 250, 500, 501, 1000}
DataValues == {-100, 100}
Offsets == {-500, 0, 500}
SamplingFrequencies == {1000, 20000000}
Statuses == {"armed", "running", "done"}

(* _switch_variable_(device_data, master_state, positive_state,             *)
(*                   negative_state, positive_voltage, negative_voltage)    *)
CallSwitchVariable ==
    /\ mode = "supplies" /\ pc = "call"
    /\ switch_variable(args.master_state, args.positive_state, args.negative_state,
                       args.positive_voltage, args.negative_voltage)
    /\ pc' = "returned"
    /\ UNCHANGED <<mode, mainVars, clock, handleOpen, scopeVars, genVars, teardown,
                   recordVars, args>>

(* generate_function(device_data, channel, function, offset, data = values) *)
CallGenerateFunction ==
    /\ mode = "generate" /\ pc = "call"
    /\ generate_function(args.channel, args.function, args.offset, args.data)
    /\ pc' = "returned"
    /\ UNCHANGED <<mode, mainVars, clock, handleOpen, scopeVars, supplyVars, teardown,
                   recordVars, args>>

(* record_oscilloscope: FDwfAnalogInConfigure(handle, False, True) *)
RecordConfigure ==
    /\ mode = "record" /\ pc = "configure"
    /\ acquisitions' = acquisitions + 1
    /\ pc' = "poll"
    /\ UNCHANGED <<mode, mainVars, clock, handleOpen, scopeVars, genVars, supplyVars,
                   teardown, buffer_size, sampling_frequency, lastStatus, bufferReads,
                   retBuffer, retTime, args>>

(* One turn of the while True loop: FDwfAnalogInStatus, then break when     *)
(* the status is DwfStateDone.  The device decides the status.              *)
RecordPoll ==
    /\ mode = "record" /\ pc = "poll"
    /\ \E status \in Statuses :
          /\ lastStatus' = status
          /\ pc' = IF status = "done" THEN "copy" ELSE "poll"
    /\ UNCHANGED <<mode, mainVars, clock, handleOpen, scopeVars, genVars, supplyVars,
                   teardown, buffer_size, sampling_frequency, acquisitions, bufferReads,
                   retBuffer, retTime, args>>

(* buffer = (c_double * data.buffer_size)(); FDwfAnalogInStatusData(...);   *)
(* time = [moment / data.sampling_frequency for moment in                  *)
(* range(0, data.buffer_size)]; return buffer, time.  A time is kept as    *)
(* the pair <<moment, sampling_frequency>>.                                *)
RecordCopyTimeShort ==
    /\ mode = "record" /\ pc = "copy"
    /\ bufferReads' = bufferReads + 1
    /\ retBuffer' = [k \in 1..buffer_size |-> AnalogIn(args.channel - 1)]
    /\ retTime' = [k \in 1..(buffer_size - 1) |-> <<k, sampling_frequency>>]
    /\ pc' = "returned"
    /\ UNCHANGED <<mode, mainVars, clock, handleOpen, scopeVars, genVars, supplyVars,
                   teardown, buffer_size, sampling_frequency, acquisitions, lastStatus,
                   args>>
RecordCopy ==
    /\ mode = "record" /\ pc = "copy"
    /\ bufferReads' = bufferReads + 1
    /\ retBuffer' = [k \in 1..buffer_size |-> AnalogIn(args.channel - 1)]
    /\ retTime' = [k \in 1..buffer_size |-> <<k - 1, sampling_frequency>>]
    /\ pc' = "returned"
    /\ UNCHANGED <<mode, mainVars, clock, handleOpen, scopeVars, genVars, supplyVars,
                   teardown, buffer_size, sampling_frequency, acquisitions, lastStatus,
                   args>>

NextRecord == RecordConfigure \/ RecordPoll \/ RecordCopy

----------------------------------------------------------------------------
(* Initial states *)

SeqsUpTo(S, n) == UNION {[1..m -> S] : m \in 0..n}

(* the locals of main(), lines 272-282 *)
Locals(p, a, s, c) ==
    /\ power_up = p /\ start_voltage = p
    /\ amplitude = a /\ amplitude_slope = s
    /\ rmap_steps = RmapSteps(a, s)
    /\ cycles = c
    /\ j = 0 /\ i = 0 /\ start_time = 0
    /\ ramp_measurements = <<>> /\ opamp_measurements = <<>> /\ Times = <<>>
    /\ data = <<>>
    /\ settles = 0 /\ recordedRising = 0 /\ recordedFalling = 0

(* a device nothing has been written to yet *)
Device(open, offset0) ==
    /\ handleOpen = open
    /\ scopeEnabled = {} /\ sampledCh = {}
    /\ genOffset = [c \in {0, 1} |-> IF c = 0 THEN offset0 ELSE 0]
    /\ genFunc = [c \in {0, 1} |-> "reset"]
    /\ genCalls = 0 /\ uploads = <<>>
    /\ posRail = 0 /\ negRail = 0 /\ railsOn = <<FALSE, FALSE, FALSE>>
    /\ teardown = <<>>
    /\ acquisitions = 0 /\ lastStatus = "none" /\ bufferReads = 0
    /\ retBuffer = <<>> /\ retTime = <<>>

(* main() with a sweep configuration whose step count is an integer *)
InitSweep ==
    /\ mode = "main" /\ pc = "open"
    /\ \E p \in Starts, s \in Slopes, n \in 0..MaxSteps, c \in 0..MaxCycles :
          Locals(p, n * s, s, c)
    /\ clock \in 0..MaxClock
    /\ Device(FALSE, 0)
    /\ buffer_size = 0 /\ sampling_frequency = 1000
    /\ args = <<>>

(* main() as shipped, lines 275-280.  The clock starts at its cap, so this  *)
(* long run is followed for one clock history.                              *)
InitShipped ==
    /\ mode = "main" /\ pc = "open"
    /\ Locals(ShippedPowerUp, ShippedAmplitude, ShippedSlope, ShippedCycles)
    /\ clock = MaxClock
    /\ Device(FALSE, 0)
    /\ buffer_size = 0 /\ sampling_frequency = 1000
    /\ args = <<>>

InitSupplies ==
    /\ mode = "supplies" /\ pc = "call"
    /\ Locals(0, 0, 1, 0)
    /\ clock = 0
    /\ Device(TRUE, 0)
    /\ buffer_size = 0 /\ sampling_frequency = 1000
    /\ args \in [master_state : BOOLEAN, positive_state : BOOLEAN,
                 negative_state : BOOLEAN,
                 positive_voltage : SupplyRequests, negative_voltage : SupplyRequests]

InitGenerate ==
    /\ mode = "generate" /\ pc = "call"
    /\ Locals(0, 0, 1, 0)
    /\ clock = 0
    /\ Device(TRUE, 0)
    /\ buffer_size = 0 /\ sampling_frequency = 1000
    /\ args \in [channel : {1, 2}, function : FunctionKinds, offset : Offsets,
                 data : SeqsUpTo(DataValues, MaxData)]

InitRecord ==
    /\ mode = "record" /\ pc = "configure"
    /\ Locals(0, 0, 1, 0)
    /\ clock = 0
    /\ \E o \in Offsets : Device(TRUE, o)
    /\ buffer_size \in 0..MaxBuffer
    /\ sampling_frequency \in SamplingFrequencies
    /\ args \in [channel : {1, 2}]

Init == InitSweep \/ InitShipped \/ InitSupplies \/ InitGenerate \/ InitRecord

Next == NextMain \/ CallSwitchVariable \/ CallGenerateFunction \/ NextRecord

Spec == Init /\ [][Next]_vars

(* record_oscilloscope alone.  The program never stops stepping, so the    *)
(* start of the acquisition and the copy after the loop are taken once     *)
(* enabled; a poll may go on returning a status other than done for ever.  *)
LiveSpec ==
    /\ InitRecord
    /\ [][NextRecord]_vars
    /\ WF_vars(RecordConfigure)
    /\ WF_vars(RecordCopy)

----------------------------------------------------------------------------
(* Properties *)

(* the sweep loops of main() have finished and main() is still running *)
SweepFinished ==
    /\ mode = "main"
    /\ pc \in {"present", "close_function", "close_oscilloscope", "close",
               "build_data", "done"}

(* generate_function calls made inside the sweep loops (the first call sets up the generator) *)
SweepGenCalls == IF genCalls = 0 THEN 0 ELSE genCalls - 1

(* the rising phase of a cycle has just ended *)
RisingPhaseOver == mode = "main" /\ pc = "fall" /\ i = 0

(* the generator is being driven by the sweep *)
Driving == mode = "main" /\ genCalls >= 1 /\ teardown = <<>>

(* C1: when the sweep loops finish, Times, ramp_measurements and            *)
(* opamp_measurements (and the final data list) each hold exactly           *)
(* cycles * 2 * 2 * step_count entries, step_count = amplitude /            *)
(* step_size, half of them recorded in the rising phases and half in the    *)
(* falling phases; for the shipped constants that is 400 = 200 + 200.       *)
C1_SampleCount ==
    LET step_count == amplitude \div amplitude_slope
        total == cycles * 2 * 2 * step_count
        shipped == /\ start_voltage = ShippedPowerUp /\ amplitude = ShippedAmplitude
                   /\ amplitude_slope = ShippedSlope /\ cycles = ShippedCycles
    IN  /\ SweepFinished =>
            /\ Len(Times) = total
            /\ Len(ramp_measurements) = total
            /\ Len(opamp_measurements) = total
            /\ recordedRising = cycles * 2 * step_count
            /\ recordedFalling = cycles * 2 * step_count
        /\ (mode = "main" /\ pc = "done") => Len(data) = total
        /\ (SweepFinished /\ shipped) =>
            /\ Len(Times) = 400
            /\ recordedRising = 200
            /\ recordedFalling = 200

C1_Witness ==
    /\ mode = "main" /\ pc = "done"
    /\ start_voltage = ShippedPowerUp /\ amplitude = ShippedAmplitude
    /\ amplitude_slope = ShippedSlope /\ cycles = ShippedCycles
    /\ Len(data) = 400
    /\ recordedRising = 200 /\ recordedFalling = 200

(* C2, as claimed: the output written by the last iteration of the rising   *)
(* phase is start_voltage + amplitude to within one step, and the driven    *)
(* output never exceeds start_voltage + amplitude by more than one step.    *)
C2_RisingEndsAtAmplitude ==
    /\ RisingPhaseOver =>
          Abs(genOffset[0] - (start_voltage + amplitude)) <= amplitude_slope
    /\ Driving => genOffset[0] <= start_voltage + amplitude + amplitude_slope

(* C2, amended: each rising phase runs 2 * step_count iterations, so the    *)
(* output written by its last iteration is start_voltage + 2 * amplitude    *)
(* to within one step, and the driven output never exceeds                  *)
(* start_voltage + 2 * amplitude by more than one step.                     *)
C2_RisingEndsAtTwiceAmplitude ==
    /\ RisingPhaseOver =>
          /\ Abs(genOffset[0] - (start_voltage + 2 * amplitude)) <= amplitude_slope
          /\ genOffset[0] = power_up
    /\ Driving => genOffset[0] <= start_voltage + 2 * amplitude + amplitude_slope

C2_Witness ==
    /\ RisingPhaseOver
    /\ j = 1 /\ rmap_steps = 2
    /\ genCalls = 1 + 3 * RiseIterations
    /\ genOffset[0] = start_voltage + 2 * amplitude

(* C3: round trip.  At the end of the falling phase of every cycle, and so  *)
(* at the start of every rising phase, the generator output is back at      *)
(* start_voltage to within one step.                                        *)
C3_RoundTrip ==
    (/\ mode = "main"
     /\ genCalls >= 1
     /\ \/ pc = "cycle"
        \/ pc = "rise" /\ i = 0)
    => /\ Abs(power_up - start_voltage) <= amplitude_slope
       /\ genOffset[0] = power_up

C3_Witness ==
    /\ mode = "main" /\ pc = "cycle"
    /\ j = 2 /\ rmap_steps = 2
    /\ genCalls = 1 + 2 * (RiseIterations + FallIterations)
    /\ genOffset[0] = start_voltage

(* C4: _switch_variable_ writes the positive rail inside [0, 5] V and the   *)
(* negative rail inside [-5, 0] V: a request in range is written unchanged, *)
(* one above the range as the upper bound, one below as the lower bound     *)
(* (10 V gives 5 V, -10 V gives -5 V).                                      *)
C4_SuppliesClamped ==
    /\ posRail >= 0 /\ posRail <= 500
    /\ negRail >= -500 /\ negRail <= 0
    /\ (mode = "supplies" /\ pc = "returned") =>
          /\ args.positive_voltage > 500 => posRail = 500
          /\ args.positive_voltage < 0 => posRail = 0
          /\ args.positive_voltage \in 0..500 => posRail = args.positive_voltage
          /\ args.negative_voltage > 0 => negRail = 0
          /\ args.negative_voltage < -500 => negRail = -500
          /\ args.negative_voltage \in -500..0 => negRail = args.negative_voltage
          /\ args.positive_voltage = 1000 => posRail = 500
          /\ args.negative_voltage = -1000 => negRail = -500

C4_Witness ==
    /\ mode = "supplies" /\ pc = "returned"
    /\ args.positive_voltage = 1000 /\ posRail = 500
    /\ args.negative_voltage = -1000 /\ negRail = -500

(* C5: whenever main() has ended, normally or by an exception, the device   *)
(* handle is closed and the teardown calls (close_function,                 *)
(* close_oscilloscope, close) were made if the device had been opened.      *)
C5_TeardownOnEveryExit ==
    (mode = "main" /\ pc \in {"done", "crashed"}) =>
        /\ ~handleOpen
        /\ teardown \in {<<>>, <<"close_function", "close_oscilloscope", "close">>}

(* C6: with a clock that never runs backwards, Times is non-decreasing in   *)
(* recording order, every value is >= 0, and every value is an elapsed time *)
(* since the one start_time taken before the first cycle.                   *)
C6_ElapsedMonotone ==
    mode = "main" =>
        /\ \A k \in 1..Len(Times) : Times[k] >= 0 /\ Times[k] <= clock - start_time
        /\ \A k \in 1..(Len(Times) - 1) : Times[k] <= Times[k + 1]

C6_Witness ==
    /\ mode = "main" /\ pc = "done"
    /\ cycles = 2 /\ Len(Times) = 16
    /\ Times[1] = 0 /\ Times[Len(Times)] = 1

(* C7: generate_function with the custom kind and N voltages issues exactly *)
(* one data upload, whose buffer is the N values in the caller's order and  *)
(* whose declared length is N; with any other kind it issues none.          *)
C7_CustomUpload ==
    /\ (mode = "generate" /\ pc = "returned") =>
          IF args.function = "custom"
          THEN /\ Len(uploads) = 1
               /\ Len(uploads[1].buffer) = Len(args.data)
               /\ \A k \in 1..Len(args.data) : uploads[1].buffer[k] = args.data[k]
               /\ uploads[1].length = Len(args.data)
               /\ uploads[1].channel = args.channel - 1
          ELSE uploads = <<>>
    /\ mode = "main" => uploads = <<>>

C7_Witness ==
    /\ mode = "generate" /\ pc = "returned"
    /\ args.function = "custom"
    /\ Len(args.data) = 2 /\ args.data[1] # args.data[2]
    /\ Len(uploads) = 1 /\ uploads[1].length = 2

(* C8, as claimed: in every iteration the elapsed time is appended after    *)
(* the two samples and before the output is changed and the generator       *)
(* reconfigured; the settle delay comes last.                               *)
C8_TimeBeforeReconfigure ==
    mode = "main" =>
        /\ settles <= SweepGenCalls
        /\ SweepGenCalls <= Len(Times)
        /\ Len(Times) <= Len(opamp_measurements)
        /\ Len(opamp_measurements) <= Len(ramp_measurements)
        /\ Len(ramp_measurements) <= settles + 1

(* C8, amended: in every iteration of either phase the order is: sample     *)
(* channel 1 and append it, sample channel 2 and append it, change the      *)
(* output by one step and reconfigure the generator, append the elapsed     *)
(* time, settle.  The elapsed time of a step is recorded after the          *)
(* generator has been reconfigured for the next step.                       *)
C8_ReconfigureBeforeTime ==
    mode = "main" =>
        /\ settles <= Len(Times)
        /\ Len(Times) <= SweepGenCalls
        /\ SweepGenCalls <= Len(opamp_measurements)
        /\ Len(opamp_measurements) <= Len(ramp_measurements)
        /\ Len(ramp_measurements) <= settles + 1
        /\ pc \in {"rise_time", "fall_time", "rise_sleep", "fall_sleep"} =>
              genOffset[0] = power_up

C8_Witness ==
    /\ mode = "main" /\ pc = "fall_time"
    /\ SweepGenCalls = Len(Times) + 1
    /\ Len(opamp_measurements) = SweepGenCalls
    /\ genOffset[0] = power_up
    /\ settles = Len(Times)

C9_RecordStates ==
    mode = "record" =>
        /\ acquisitions = (IF pc = "configure" THEN 0 ELSE 1)
        /\ bufferReads = (IF pc = "returned" THEN 1 ELSE 0)
        /\ bufferReads = 1 => lastStatus = "done"
        /\ pc = "poll" => lastStatus # "done"
        /\ pc = "returned" =>
              /\ Len(retBuffer) = buffer_size
              /\ Len(retTime) = buffer_size

C10_SampledChannelsEnabled ==
    mode = "main" =>
        /\ sampledCh \subseteq scopeEnabled
        /\ pc \notin {"open", "open_scope", "crashed"} => scopeEnabled = {0, 1}

====
